---- MODULE Spec2Model ----
(***************************************************************************)
(* BindingValidator.Validate (package permissions): the privilege-        *)
(* escalation-aware authorization of an operation on a (Cluster)Role-      *)
(* Binding.  One behaviour is one Validate call; each action is the code   *)
(* between two collaborator calls, the call included.  The answers of the  *)
(* collaborators (the access-review service, the role lookup, the REST     *)
(* mapper) are inputs chosen by the environment at the moment of the call. *)
(***************************************************************************)
EXTENDS Naturals, Sequences, FiniteSets

VARIABLES res, verb, pc, mapping, calls, rules, subrules, errorSet, result

vars == <<res, verb, pc, mapping, calls, rules, subrules, errorSet, result>>

(* ------------------------------ bounds -------------------------------- *)

\* Longest rule list of a referenced role.
MaxRules == 2

\* Largest number of atomic rules a referenced role breaks down into.
MaxSubrules == 6

(* ------------------------------ values -------------------------------- *)

\* A nil error.
Nil == [type |-> "nil"]

\* The verbs Validate is called with.
Verbs == {"create", "update", "delete", "get"}

\* The resources Validate is called with: a namespaced binding, a
\* cluster-scoped binding and a resource whose kind the mapper does not know.
Resources ==
  { [kind |-> "RoleBinding", namespace |-> "ns1", name |-> "rb",
     roleRef |-> "edit"],
    [kind |-> "ClusterRoleBinding", namespace |-> "", name |-> "crb",
     roleRef |-> "admin"],
    [kind |-> "Widget", namespace |-> "ns1", name |-> "w",
     roleRef |-> "edit"] }

\* rbacv1.PolicyRule values a referenced role may hold.
PolicyRules ==
  { [APIGroups |-> <<"">>, Resources |-> <<"pods", "services">>,
     ResourceNames |-> <<>>, Verbs |-> <<"get", "list">>],
    [APIGroups |-> <<"apps">>, Resources |-> <<"deployments">>,
     ResourceNames |-> <<"web", "db">>, Verbs |-> <<"get">>],
    [APIGroups |-> <<"">>, Resources |-> <<"secrets">>,
     ResourceNames |-> <<>>, Verbs |-> <<"get">>] }

\* The answers of the SelfSubjectAccessReview service to one review.
ReviewAnswers == {"allowed", "denied", "failed"}

(* --------------------------- collaborators ---------------------------- *)

\* mapper.RESTMapping: the addressing of a kind, or an error for a kind
\* that is not known.
RESTMapping(r) ==
  IF r.kind = "RoleBinding"
    THEN [err |-> Nil,
          gvr |-> [Group |-> "rbac.authorization.k8s.io", Version |-> "v1",
                   Resource |-> "rolebindings"]]
  ELSE IF r.kind = "ClusterRoleBinding"
    THEN [err |-> Nil,
          gvr |-> [Group |-> "rbac.authorization.k8s.io", Version |-> "v1",
                   Resource |-> "clusterrolebindings"]]
  ELSE [err |-> [type |-> "NoKindMatch", kind |-> r.kind],
        gvr |-> [Group |-> "", Version |-> "", Resource |-> ""]]

\* ValidatePermissions: one review of attrs; nil when allowed, an error
\* naming the attributes when denied, the transport's error when the call
\* did not complete.
ValidatePermissions(attrs, answer) ==
  IF answer = "allowed" THEN Nil
  ELSE IF answer = "denied" THEN [type |-> "NotPermitted", attrs |-> attrs]
  ELSE [type |-> "Transport", attrs |-> attrs]

\* validation.BreakdownRule: one subrule per group, resource, verb and (when
\* the rule names resources) resource name, in that nesting order.
BreakdownRule(rule) ==
  LET G == Len(rule.APIGroups)
      R == Len(rule.Resources)
      V == Len(rule.Verbs)
      N == Len(rule.ResourceNames)
      M == IF N > 0 THEN N ELSE 1
  IN  [k \in 1..(G * R * V * M) |->
        LET i == k - 1
        IN  [APIGroups |-> <<rule.APIGroups[(i \div (R * V * M)) + 1]>>,
             Resources |-> <<rule.Resources[((i \div (V * M)) % R) + 1]>>,
             Verbs |-> <<rule.Verbs[((i \div M) % V) + 1]>>,
             ResourceNames |->
               IF N > 0 THEN <<rule.ResourceNames[(i % M) + 1]>> ELSE <<>>]]

RECURSIVE SubruleCount(_)
\* The number of subrules a rule list breaks down into.
SubruleCount(rs) ==
  IF rs = <<>> THEN 0
  ELSE Len(BreakdownRule(Head(rs))) + SubruleCount(Tail(rs))

\* The rule lists a referenced role may hold.
RuleLists ==
  { rs \in UNION { [1..n -> PolicyRules] : n \in 0..MaxRules } :
      SubruleCount(rs) <= MaxSubrules }

\* The answers of the role lookup: the role's rules, role not found, or the
\* call did not complete.
RoleAnswers ==
  { [found |-> "yes", rules |-> rs] : rs \in RuleLists }
    \cup { [found |-> "no", rules |-> <<>>],
           [found |-> "failed", rules |-> <<>>] }

\* RulesForBinding: the rules of the role the binding references, or the
\* lookup's error.
RulesForBinding(r, answer) ==
  IF answer.found = "yes" THEN [err |-> Nil, rules |-> answer.rules]
  ELSE IF answer.found = "no"
    THEN [err |-> [type |-> "NotFound", role |-> r.roleRef], rules |-> <<>>]
  ELSE [err |-> [type |-> "Transport", role |-> r.roleRef], rules |-> <<>>]

(* ------------------------------ Validate ------------------------------ *)

\* The attributes of a review of the binding resource itself for verb v.
BindingAttributes(m, r, v) ==
  [Group |-> m.gvr.Group, Version |-> m.gvr.Version,
   Resource |-> m.gvr.Resource, Namespace |-> r.namespace,
   Name |-> r.name, Verb |-> v]

\* AtomicAttributes with the subrule's resource name left out.
AtomicAttributesNoName(subrule, r) ==
  [Group |-> subrule.APIGroups[1], Version |-> "",
   Resource |-> subrule.Resources[1], Namespace |-> r.namespace,
   Name |-> "", Verb |-> subrule.Verbs[1]]

\* The attributes of the review of one subrule.
AtomicAttributes(subrule, r) ==
  [Group |-> subrule.APIGroups[1], Version |-> "",
   Resource |-> subrule.Resources[1], Namespace |-> r.namespace,
   Name |-> IF Len(subrule.ResourceNames) > 0
              THEN subrule.ResourceNames[1] ELSE "",
   Verb |-> subrule.Verbs[1]]

\* MappingFailed with the mapper's error ignored.
MappingErrorIgnored(m) == FALSE

\* if err != nil { return err } after RESTMapping.
MappingFailed(m) == m.err # Nil

\* IsEscalationVerb with "delete" sent down the escalation branch too.
IsEscalationVerbWithDelete(v) == v \in {"create", "update", "delete"}

\* case "create", "update".
IsEscalationVerb(v) == v \in {"create", "update"}

\* BindShortCircuits with the test inverted.
BindShortCircuitsInverted(err) == err # Nil

\* if err == nil { return nil } after the "bind" review.
BindShortCircuits(err) == err = Nil

\* AfterBind with the review of the verb itself skipped.
AfterBindSkipsDirect == "resolve"

\* The step that follows a "bind" review that did not return nil.
AfterBind == "direct"

\* DirectCheckFails returning only on a transport failure.
DirectCheckFailsOnTransportOnly(err) == err.type = "Transport"

\* if err != nil { return err } after the review of the verb itself.
DirectCheckFails(err) == err # Nil

\* WrapRulesError that formats a message and drops the cause.
WrapRulesErrorDropsCause(err) ==
  [type |-> "Wrapped", msg |-> "fetching rules for binding", cause |-> Nil]

\* fmt.Errorf("fetching rules for binding: %w", err).
WrapRulesError(err) ==
  [type |-> "Wrapped", msg |-> "fetching rules for binding", cause |-> err]

\* CollectError that keeps only the first failure.
CollectFirstError(es, err) ==
  IF err # Nil /\ es = <<>> THEN Append(es, err) ELSE es

\* if err != nil { errorSet = append(errorSet, err) }.
CollectError(es, err) == IF err # Nil THEN Append(es, err) ELSE es

\* EscalationResult that reports an escalation whatever the reviews said.
EscalationResultAlways(es, v, r) ==
  [type |-> "Joined",
   errs |-> <<[type |-> "Escalation", verb |-> v, kind |-> r.kind]>> \o es]

\* The value returned once every subrule is reviewed.
EscalationResult(es, v, r) ==
  IF Len(es) > 0
    THEN [type |-> "Joined",
          errs |-> <<[type |-> "Escalation", verb |-> v, kind |-> r.kind]>>
                     \o es]
    ELSE Nil

\* A collaborator call as recorded in issue order.
Review(step, attrs, err) == [step |-> step, attrs |-> attrs, out |-> err]

Init ==
  /\ res \in Resources
  /\ verb \in Verbs
  /\ pc = "start"
  /\ mapping = RESTMapping(res)
  /\ calls = <<>>
  /\ rules = <<>>
  /\ subrules = <<>>
  /\ errorSet = <<>>
  /\ result = Nil

\* RESTMapping and the switch on the verb.
Mapping ==
  /\ pc = "start"
  /\ calls' = Append(calls, [step |-> "mapping", attrs |-> res.kind,
                             out |-> mapping.err])
  /\ IF MappingFailed(mapping)
       THEN /\ result' = mapping.err
            /\ pc' = "done"
       ELSE /\ result' = result
            /\ pc' = IF IsEscalationVerb(verb) THEN "bind" ELSE "default"
  /\ UNCHANGED <<res, verb, mapping, rules, subrules, errorSet>>

\* The review of "bind" on the binding resource.
CheckBind ==
  /\ pc = "bind"
  /\ \E answer \in ReviewAnswers :
       LET attrs == BindingAttributes(mapping, res, "bind")
           err == ValidatePermissions(attrs, answer)
       IN  /\ calls' = Append(calls, Review("bind", attrs, err))
           /\ IF BindShortCircuits(err)
                THEN /\ result' = Nil
                     /\ pc' = "done"
                ELSE /\ result' = result
                     /\ pc' = AfterBind
  /\ UNCHANGED <<res, verb, mapping, rules, subrules, errorSet>>

\* The review of the verb itself on the binding resource.
CheckDirect ==
  /\ pc = "direct"
  /\ \E answer \in ReviewAnswers :
       LET attrs == BindingAttributes(mapping, res, verb)
           err == ValidatePermissions(attrs, answer)
       IN  /\ calls' = Append(calls, Review("direct", attrs, err))
           /\ IF DirectCheckFails(err)
                THEN /\ result' = err
                     /\ pc' = "done"
                ELSE /\ result' = result
                     /\ pc' = "resolve"
  /\ UNCHANGED <<res, verb, mapping, rules, subrules, errorSet>>

\* RulesForBinding and the start of the loop over the rules.
ResolveRules ==
  /\ pc = "resolve"
  /\ \E answer \in RoleAnswers :
       LET got == RulesForBinding(res, answer)
       IN  /\ calls' = Append(calls, [step |-> "rules", attrs |-> res.roleRef,
                                      out |-> got])
           /\ IF got.err # Nil
                THEN /\ result' = WrapRulesError(got.err)
                     /\ pc' = "done"
                     /\ rules' = rules
                ELSE /\ result' = result
                     /\ pc' = "loop"
                     /\ rules' = got.rules
  /\ errorSet' = <<>>
  /\ UNCHANGED <<res, verb, mapping, subrules>>

\* for _, rule := range rules: the breakdown of the next rule.
NextRule ==
  /\ pc = "loop"
  /\ subrules = <<>>
  /\ rules # <<>>
  /\ subrules' = BreakdownRule(Head(rules))
  /\ rules' = Tail(rules)
  /\ UNCHANGED <<res, verb, pc, mapping, calls, errorSet, result>>

\* for _, subrule := range subrules: the review of the next subrule.
CheckAtomic ==
  /\ pc = "loop"
  /\ subrules # <<>>
  /\ \E answer \in ReviewAnswers :
       LET attrs == AtomicAttributes(Head(subrules), res)
           err == ValidatePermissions(attrs, answer)
       IN  /\ calls' = Append(calls, Review("atomic", attrs, err))
           /\ errorSet' = CollectError(errorSet, err)
  /\ subrules' = Tail(subrules)
  /\ UNCHANGED <<res, verb, pc, mapping, rules, result>>

\* The end of the loops: the joined error, or nil.
Finish ==
  /\ pc = "loop"
  /\ subrules = <<>>
  /\ rules = <<>>
  /\ result' = EscalationResult(errorSet, verb, res)
  /\ pc' = "done"
  /\ UNCHANGED <<res, verb, mapping, calls, rules, subrules, errorSet>>

\* default: the single review of the verb on the binding resource.
CheckDefault ==
  /\ pc = "default"
  /\ \E answer \in ReviewAnswers :
       LET attrs == BindingAttributes(mapping, res, verb)
           err == ValidatePermissions(attrs, answer)
       IN  /\ calls' = Append(calls, Review("direct", attrs, err))
           /\ result' = err
  /\ pc' = "done"
  /\ UNCHANGED <<res, verb, mapping, rules, subrules, errorSet>>

Next ==
  \/ Mapping
  \/ CheckBind
  \/ CheckDirect
  \/ ResolveRules
  \/ NextRule
  \/ CheckAtomic
  \/ Finish
  \/ CheckDefault

Spec == Init /\ [][Next]_vars

(* ----------------------- reading the call record ---------------------- *)

\* The calls of one step, in issue order.
CallsOf(step) == SelectSeq(calls, LAMBDA c : c.step = step)

\* Whether a call of the step with this kind of outcome was made.
Made(step, type) ==
  \E i \in 1..Len(calls) : calls[i].step = step /\ calls[i].out.type = type

\* Whether the role's rules were resolved.
RulesResolved ==
  \E i \in 1..Len(calls) : calls[i].step = "rules" /\ calls[i].out.err = Nil

\* The rules the role lookup returned.
ResolvedRules == CallsOf("rules")[1].out.rules

\* The verbs the specification names escalation-sensitive.
EscalationVerbs == {"create", "update"}

RECURSIVE Flatten(_)
\* The subrules of a rule list, rule by rule.
Flatten(rs) ==
  IF rs = <<>> THEN <<>> ELSE BreakdownRule(Head(rs)) \o Flatten(Tail(rs))

\* The errors of the atomic reviews that did not return nil, in issue order.
FailedAtomic ==
  LET failed == SelectSeq(CallsOf("atomic"), LAMBDA c : c.out # Nil)
  IN  [i \in 1..Len(failed) |-> failed[i].out]

\* The place of a step in the order the specification gives.
Rank(step) ==
  CASE step = "mapping" -> 0
    [] step = "bind" -> 1
    [] step = "direct" -> 2
    [] step = "rules" -> 3
    [] step = "atomic" -> 4

(* ------------------------------- claims ------------------------------- *)

\* C1: once the "bind" review returned allowed, Validate has returned nil
\* and that review is the last collaborator call: no review of the verb
\* itself, no role lookup, no atomic review follows it.
C1_BindShortcut ==
  \A i \in 1..Len(calls) :
    (calls[i].step = "bind" /\ calls[i].out = Nil)
      => /\ verb \in EscalationVerbs
         /\ pc = "done"
         /\ result = Nil
         /\ i = Len(calls)
         /\ Len(CallsOf("direct")) = 0
         /\ Len(CallsOf("rules")) = 0
         /\ Len(CallsOf("atomic")) = 0

C1_Witness ==
  /\ pc = "done"
  /\ verb = "update"
  /\ Made("bind", "nil")
  /\ result = Nil

\* C2: for create and update, when "bind" is denied and the verb itself is
\* denied, Validate has returned exactly the error of the review of the verb
\* itself (the error a direct review gives), not an escalation error, and
\* neither the role lookup nor an atomic review was made.
C2_DirectAccessGate ==
  (verb \in EscalationVerbs /\ Made("bind", "NotPermitted")
     /\ Made("direct", "NotPermitted"))
    => /\ pc = "done"
       /\ result = CallsOf("direct")[1].out
       /\ result =
            ValidatePermissions(BindingAttributes(mapping, res, verb), "denied")
       /\ result.type # "Joined"
       /\ Len(CallsOf("rules")) = 0
       /\ Len(CallsOf("atomic")) = 0

C2_Witness ==
  /\ pc = "done"
  /\ verb = "create"
  /\ Made("bind", "NotPermitted")
  /\ Made("direct", "NotPermitted")

\* C3: a "bind" review that did not complete (a transport failure) ends the
\* call: Validate has returned that failure and no call follows it.
C3_BindTransportIsHardError ==
  \A i \in 1..Len(calls) :
    (calls[i].step = "bind" /\ calls[i].out.type = "Transport")
      => /\ pc = "done"
         /\ result = calls[i].out
         /\ i = Len(calls)

\* C4: once Validate has returned from the escalation step, the atomic
\* reviews made are those of the subrules of the resolved rules, one review
\* per subrule and none left out after a denial or an error, and the joined
\* error holds one entry per review that did not return nil.
C4_EscalationCompleteness ==
  /\ (pc = "loop" /\ Made("bind", "NotPermitted"))
       => /\ Len(CallsOf("atomic")) + Len(subrules) + Len(Flatten(rules))
               = Len(Flatten(ResolvedRules))
          /\ errorSet = FailedAtomic
  /\ (pc = "done" /\ Made("bind", "NotPermitted") /\ RulesResolved)
       => /\ Len(CallsOf("atomic")) = Len(Flatten(ResolvedRules))
          /\ \A k \in 1..Len(CallsOf("atomic")) :
               CallsOf("atomic")[k].attrs
                 = AtomicAttributes(Flatten(ResolvedRules)[k], res)
          /\ (FailedAtomic # <<>>)
               => /\ result.type = "Joined"
                  /\ Len(result.errs) = 1 + Len(FailedAtomic)
                  /\ \A k \in 1..Len(FailedAtomic) :
                       result.errs[k + 1] = FailedAtomic[k]

C4_Witness ==
  /\ pc = "done"
  /\ Made("bind", "NotPermitted")
  /\ RulesResolved
  /\ Len(ResolvedRules) = 2
  /\ Len(FailedAtomic) >= 2
  /\ CallsOf("atomic")[1].out # Nil
  /\ CallsOf("atomic")[Len(CallsOf("atomic"))].out = Nil

\* C5: for create and update, when "bind" is denied, the verb itself is
\* allowed, the role resolves and every atomic review is allowed (also when
\* the role has no rule), Validate returns nil; it returns the escalation
\* error only when an atomic review failed.
C5_EscalationSuccess ==
  (pc = "done" /\ verb \in EscalationVerbs /\ Made("bind", "NotPermitted")
     /\ Made("direct", "nil") /\ RulesResolved)
    => /\ (FailedAtomic = <<>>) => result = Nil
       /\ (result.type = "Joined") => FailedAtomic # <<>>
       /\ result.type \in {"nil", "Joined"}

C5_Witness ==
  /\ pc = "done"
  /\ Made("bind", "NotPermitted")
  /\ Made("direct", "nil")
  /\ RulesResolved
  /\ Len(CallsOf("atomic")) >= 2
  /\ FailedAtomic = <<>>
  /\ result = Nil

\* C6: for a verb other than create and update on a resource whose kind
\* maps, no "bind" review and no role lookup is ever made, and once Validate
\* has returned it made exactly one review, of that verb on the binding
\* resource, whose result it returned unchanged.
C6_NonEscalationVerbs ==
  (verb \notin EscalationVerbs /\ mapping.err = Nil)
    => /\ Len(CallsOf("bind")) = 0
       /\ Len(CallsOf("rules")) = 0
       /\ Len(CallsOf("atomic")) = 0
       /\ Len(CallsOf("direct")) <= 1
       /\ (pc = "done")
            => /\ Len(CallsOf("direct")) = 1
               /\ CallsOf("direct")[1].attrs
                    = BindingAttributes(mapping, res, verb)
               /\ CallsOf("direct")[1].attrs.Verb = verb
               /\ result = CallsOf("direct")[1].out

C6_Witness ==
  /\ pc = "done"
  /\ verb = "delete"
  /\ Made("direct", "NotPermitted")
  /\ result.type = "NotPermitted"

\* C7: for create and update the calls are issued in the order "bind",
\* the verb itself, the role lookup, the atomic reviews, each after the
\* result of the one before: the review of the verb follows a "bind" review
\* that did not return nil, the role lookup follows an allowed review of the
\* verb, and every atomic review follows a role lookup that succeeded.
C7_StepOrdering ==
  verb \in EscalationVerbs
    => \A i \in 1..Len(calls) :
         /\ \A j \in 1..i : Rank(calls[j].step) <= Rank(calls[i].step)
         /\ (calls[i].step = "direct")
              => /\ i > 1
                 /\ calls[i - 1].step = "bind"
                 /\ calls[i - 1].out # Nil
         /\ (calls[i].step = "rules")
              => /\ i > 1
                 /\ calls[i - 1].step = "direct"
                 /\ calls[i - 1].out = Nil
         /\ (calls[i].step = "atomic")
              => /\ i > 1
                 /\ \/ calls[i - 1].step = "atomic"
                    \/ /\ calls[i - 1].step = "rules"
                       /\ calls[i - 1].out.err = Nil

C7_Witness ==
  /\ pc = "done"
  /\ verb \in EscalationVerbs
  /\ Len(CallsOf("bind")) = 1
  /\ Len(CallsOf("direct")) = 1
  /\ Len(CallsOf("rules")) = 1
  /\ Len(CallsOf("atomic")) >= 2

\* C8: when the kind does not map, Validate returns the mapper's error as it
\* is, for every verb, and makes no review and no role lookup.
C8_UnknownKind ==
  (mapping.err # Nil)
    => /\ \A i \in 1..Len(calls) : calls[i].step = "mapping"
       /\ (pc # "start") => (pc = "done" /\ result = mapping.err)

C8_Witness ==
  /\ pc = "done"
  /\ verb = "create"
  /\ mapping.err # Nil
  /\ result = RESTMapping(res).err

\* C9: for create and update, when "bind" is denied, the verb itself is
\* allowed and the role lookup fails (not found, or the call did not
\* complete), Validate has returned an error that wraps that failure, not
\* nil and not the escalation error, and made no atomic review.
C9_RoleResolutionFailure ==
  \A i \in 1..Len(calls) :
    (calls[i].step = "rules" /\ calls[i].out.err # Nil)
      => /\ pc = "done"
         /\ result # Nil
         /\ result.type = "Wrapped"
         /\ result.cause = calls[i].out.err
         /\ result.cause.type \in {"NotFound", "Transport"}
         /\ Len(CallsOf("atomic")) = 0

C9_Witness ==
  /\ pc = "done"
  /\ Made("bind", "NotPermitted")
  /\ Made("direct", "nil")
  /\ Len(CallsOf("rules")) = 1
  /\ CallsOf("rules")[1].out.err.type = "NotFound"

\* The elements of a sequence.
Range(s) == { s[i] : i \in 1..Len(s) }

====
